---------------------------- MODULE Spec2Model ----------------------------
(***************************************************************************)
(* A model of neuprint/utils.py: heal_skeleton (with skeleton_df_to_nx,    *)
(* connected components, the nearest-neighbour stitching loop, Kruskal's   *)
(* minimum spanning edges and the depth-first link rewrite) and            *)
(* iter_batches.                                                           *)
(*                                                                         *)
(* A skeleton table is a sequence of rows [rowId, x, y, z, radius, link].  *)
(* The tables drawn here are collinear (y = z = 0), so that the Euclidean  *)
(* distance between two rows is exactly |x1 - x2|.                         *)
(***************************************************************************)
EXTENDS Integers, Sequences, FiniteSets, TLC

\* ------------------------------------------------------------------------
\* Bounds of the model
\* ------------------------------------------------------------------------
MaxNodes == 3
MaxCoord == 2
MaxItems == 4
MaxBatch == 3

\* The value of link that marks a root row (utils.py: link != -1).
NoLink == -1

VARIABLES
    input,        \* the table the caller passes to heal_skeleton
    skeleton_df,  \* heal_skeleton's sorted copy of the table
    g,            \* the undirected graph built from the table
    ccs,          \* the fragments (cc.df of each CC), big to small
    k,            \* index of the next fragment pair of the stitching loop
    stitches,     \* the edges added by the stitching loop, in order
    mst,          \* the graph of the minimum spanning edges
    result,       \* the table heal_skeleton returns
    pc,           \* position in heal_skeleton
    pass,         \* 1: first call; 2: the call on the first call's result
    first,        \* the table the first call returned
    bt            \* state of an iter_batches iteration

vars == <<input, skeleton_df, g, ccs, k, stitches, mst, result, pc, pass,
          first, bt>>

healVars == <<input, skeleton_df, g, ccs, k, stitches, mst, result, pc,
              pass, first>>

\* ------------------------------------------------------------------------
\* Helpers on sequences and numbers
\* ------------------------------------------------------------------------
Range(s) == {s[i] : i \in DOMAIN s}

Abs(n) == IF n < 0 THEN -n ELSE n

MinOf(S) == CHOOSE m \in S : \A n \in S : m <= n

MaxOf(S) == CHOOSE m \in S : \A n \in S : m >= n

Contains(s, e) == \E i \in DOMAIN s : s[i] = e

RowIds(t) == {t[i].rowId : i \in DOMAIN t}

Row(id, x, link) ==
    [rowId |-> id, x |-> x, y |-> 0, z |-> 0, radius |-> 1, link |-> link]

\* ------------------------------------------------------------------------
\* DataFrame.sort_values: a stable sort of the rows by a key
\* ------------------------------------------------------------------------
RowLess(a, b, byLink) ==
    \/ a.rowId < b.rowId
    \/ byLink /\ a.rowId = b.rowId /\ a.link < b.link

RECURSIVE InsertRow(_, _, _)
InsertRow(s, r, byLink) ==
    IF s = << >> THEN <<r>>
    ELSE IF RowLess(r, s[Len(s)], byLink)
         THEN Append(InsertRow(SubSeq(s, 1, Len(s) - 1), r, byLink), s[Len(s)])
         ELSE Append(s, r)

RECURSIVE SortRows(_, _)
SortRows(t, byLink) ==
    IF t = << >> THEN << >>
    ELSE InsertRow(SortRows(SubSeq(t, 1, Len(t) - 1), byLink), t[Len(t)], byLink)

UnsortedRowId(t) == t

\* skeleton_df.sort_values('rowId').reset_index(drop=True)
SortByRowId(t) == SortRows(t, FALSE)

\* ------------------------------------------------------------------------
\* networkx.Graph: nodes and adjacency in insertion order, and the
\* 'distance' attribute of the edges
\* ------------------------------------------------------------------------
EmptyGraph == [nodes |-> << >>, adj |-> << >>, distance |-> << >>]

AddNode(G, n) ==
    IF Contains(G.nodes, n) THEN G
    ELSE [G EXCEPT !.nodes = Append(@, n), !.adj = @ @@ (n :> << >>)]

AddNbr(G, u, v) ==
    IF Contains(G.adj[u], v) THEN G
    ELSE [G EXCEPT !.adj[u] = Append(@, v)]

AddEdge(G, u, v) == AddNbr(AddNbr(AddNode(AddNode(G, u), v), u, v), v, u)

AddEdgeDist(G, u, v, d) ==
    LET H == AddEdge(G, u, v)
        e == {u, v}
    IN [H EXCEPT !.distance =
            [f \in (DOMAIN @) \cup {e} |-> IF f = e THEN d ELSE @[f]]]

RECURSIVE AddNodesFrom(_, _)
AddNodesFrom(G, ns) ==
    IF ns = << >> THEN G
    ELSE AddNodesFrom(AddNode(G, Head(ns)), Tail(ns))

RECURSIVE AddEdgesFrom(_, _)
AddEdgesFrom(G, es) ==
    IF es = << >> THEN G
    ELSE AddEdgesFrom(AddEdge(G, Head(es)[1], Head(es)[2]), Tail(es))

\* Graph.edges: every node in order, its neighbours in order, an edge to a
\* node already done is skipped.
RECURSIVE EdgesFrom(_, _, _)
EdgesFrom(G, i, seen) ==
    IF i > Len(G.nodes) THEN << >>
    ELSE LET n == G.nodes[i]
             nb == SelectSeq(G.adj[n], LAMBDA v : v \notin seen)
         IN [j \in 1..Len(nb) |-> <<n, nb[j]>>]
                \o EdgesFrom(G, i + 1, seen \cup {n})

GraphEdges(G) == EdgesFrom(G, 1, {})

EdgeSet(G) == {{e[1], e[2]} : e \in Range(GraphEdges(G))}

\* nx.set_edge_attributes(g, 0, 'distance')
SetEdgeAttributes(G, d) == [G EXCEPT !.distance = [e \in EdgeSet(G) |-> d]]

\* ------------------------------------------------------------------------
\* skeleton_df_to_nx(df, with_attributes=False, directed=False)
\* ------------------------------------------------------------------------
skeleton_df_to_nx(df) ==
    LET d2 == SortRows(df, TRUE)
        ids == [i \in DOMAIN d2 |-> d2[i].rowId]
        linked == SelectSeq(d2, LAMBDA r : r.link # NoLink)
        es == [i \in DOMAIN linked |-> <<linked[i].rowId, linked[i].link>>]
    IN AddEdgesFrom(AddNodesFrom(EmptyGraph, ids), es)

\* ------------------------------------------------------------------------
\* nx.connected_components: one set per component, in the order of the
\* component's first node
\* ------------------------------------------------------------------------
RECURSIVE Reach(_, _)
Reach(G, S) ==
    LET T == S \cup UNION {Range(G.adj[n]) : n \in S}
    IN IF T = S THEN S ELSE Reach(G, T)

RECURSIVE ComponentsFrom(_, _, _)
ComponentsFrom(G, i, seen) ==
    IF i > Len(G.nodes) THEN << >>
    ELSE IF G.nodes[i] \in seen THEN ComponentsFrom(G, i + 1, seen)
    ELSE LET c == Reach(G, {G.nodes[i]})
         IN <<c>> \o ComponentsFrom(G, i + 1, seen \cup c)

connected_components(G) == ComponentsFrom(G, 1, {})

\* ------------------------------------------------------------------------
\* heal_skeleton: the component loop
\* ------------------------------------------------------------------------
EarlyExitAlways(cs, df) == \E i \in DOMAIN cs : Cardinality(cs[i]) <= Len(df)

EarlyExitNever(cs, df) == FALSE

\* for cc in nx.connected_components(g): if len(cc) == len(skeleton_df): return
EarlyExit(cs, df) == \E i \in DOMAIN cs : Cardinality(cs[i]) = Len(df)

\* df = skeleton_df.query('rowId in @cc'); the k-d tree holds df's coordinates
FragmentRows(df, cc) == SelectSeq(df, LAMBDA r : r.rowId \in cc)

\* sorted(ccs, key=lambda cc: -len(cc.df)), a stable sort
RECURSIVE BigToSmall(_, _)
BigToSmall(fs, n) ==
    IF n < 0 THEN << >>
    ELSE SelectSeq(fs, LAMBDA f : Len(f) = n) \o BigToSmall(fs, n - 1)

Fragments(df, cs) ==
    LET fs == [i \in DOMAIN cs |-> FragmentRows(df, cs[i])]
    IN BigToSmall(fs, Len(df))

\* itertools.combinations(range(n), 2), in its order
RECURSIVE CombinationsFrom(_, _, _)
CombinationsFrom(n, i, j) ==
    IF i >= n THEN << >>
    ELSE IF j > n THEN CombinationsFrom(n, i + 1, i + 2)
    ELSE <<<<i, j>>>> \o CombinationsFrom(n, i, j + 1)

Combinations2(n) == CombinationsFrom(n, 1, 2)

\* ------------------------------------------------------------------------
\* heal_skeleton: one pass of the stitching loop
\* ------------------------------------------------------------------------
\* Euclidean distance of two rows (collinear tables: y = z = 0)
Dist(a, b) == Abs(a.x - b.x)

\* distances[j] of cc_a.kd.query(coords_b): the distance from b's j-th row
\* to the nearest row of a
QueryDistance(A, B, j) == MinOf({Dist(A[i], B[j]) : i \in DOMAIN A})

\* indexes[j] of the query: an index of a nearest row of a; which one of
\* several equally near rows the k-d tree reports is left open
QueryIndexes(A, B, j) ==
    {i \in DOMAIN A : Dist(A[i], B[j]) = QueryDistance(A, B, j)}

ArgMinFirstRow(A, B) == 1

\* np.argmin(distances): the first index of the smallest distance
ArgMin(A, B) ==
    LET m == MinOf({QueryDistance(A, B, j) : j \in DOMAIN B})
    IN MinOf({j \in DOMAIN B : QueryDistance(A, B, j) = m})

\* ------------------------------------------------------------------------
\* nx.minimum_spanning_edges(g, weight='distance', data=False): Kruskal
\* ------------------------------------------------------------------------
Weight(G, e) ==
    IF {e[1], e[2]} \in DOMAIN G.distance THEN G.distance[{e[1], e[2]}] ELSE 1

\* sorted(edges, key=itemgetter(0)): stable, by weight only
RECURSIVE SortByWeight(_, _, _)
SortByWeight(G, es, W) ==
    IF W = {} THEN << >>
    ELSE LET w == MinOf(W)
         IN SelectSeq(es, LAMBDA e : Weight(G, e) = w)
                \o SortByWeight(G, es, W \ {w})

SortedEdges(G) ==
    LET es == GraphEdges(G)
    IN SortByWeight(G, es, {Weight(G, es[i]) : i \in DOMAIN es})

\* the union-find pass: comp maps each node to the label of its subtree
RECURSIVE KruskalFrom(_, _, _)
KruskalFrom(es, i, comp) ==
    IF i > Len(es) THEN << >>
    ELSE LET u == es[i][1]
             v == es[i][2]
         IN IF comp[u] # comp[v]
            THEN <<es[i]>> \o KruskalFrom(es, i + 1,
                    [n \in DOMAIN comp |->
                        IF comp[n] = comp[v] THEN comp[u] ELSE comp[n]])
            ELSE KruskalFrom(es, i + 1, comp)

AllEdges(G) == SortedEdges(G)

minimum_spanning_edges(G) ==
    KruskalFrom(SortedEdges(G), 1, [n \in Range(G.nodes) |-> n])

\* mst = nx.Graph(); mst.add_nodes_from(g); mst.add_edges_from(mst_edges)
MstGraph(G) ==
    AddEdgesFrom(AddNodesFrom(EmptyGraph, G.nodes), minimum_spanning_edges(G))

\* ------------------------------------------------------------------------
\* nx.dfs_edges(mst, source=root)
\* ------------------------------------------------------------------------
RECURSIVE DfsVisit(_, _, _, _)
DfsVisit(G, parent, i, acc) ==
    IF i > Len(G.adj[parent]) THEN acc
    ELSE LET child == G.adj[parent][i]
         IN IF child \in acc.visited
            THEN DfsVisit(G, parent, i + 1, acc)
            ELSE DfsVisit(G, parent, i + 1,
                    DfsVisit(G, child, 1,
                        [edges |-> Append(acc.edges, <<parent, child>>),
                         visited |-> acc.visited \cup {child}]))

FirstNeighbourEdges(G, root) ==
    LET ns == SelectSeq(G.nodes, LAMBDA n : n # root /\ G.adj[n] # << >>)
    IN [i \in DOMAIN ns |-> <<G.adj[ns[i]][1], ns[i]>>]

dfs_edges(G, root) ==
    DfsVisit(G, root, 1, [edges |-> << >>, visited |-> {root}]).edges

\* ------------------------------------------------------------------------
\* heal_skeleton: the link rewrite and its assertions
\* ------------------------------------------------------------------------
\* skeleton_df['rowId'].map(edges).fillna(-1): edges maps child to parent
LinkRewrite(df, es) ==
    [i \in DOMAIN df |->
        [df[i] EXCEPT !.link =
            IF \E j \in DOMAIN es : es[j][2] = df[i].rowId
            THEN es[CHOOSE j \in DOMAIN es : es[j][2] = df[i].rowId][1]
            ELSE NoLink]]

AssertRootFirst(df) == df[1].link = NoLink

\* assert (skeleton_df['link'] == -1).sum() == 1
\* assert skeleton_df['link'].iloc[0] == -1
Asserts(df) ==
    /\ Cardinality({i \in DOMAIN df : df[i].link = NoLink}) = 1
    /\ df[1].link = NoLink

\* ------------------------------------------------------------------------
\* The tables heal_skeleton is called with
\* ------------------------------------------------------------------------
\* Follow link from id for at most n steps: TRUE when a root row is reached
RECURSIVE ReachesRoot(_, _, _)
ReachesRoot(f, id, n) ==
    IF f[id] = NoLink THEN TRUE
    ELSE IF n = 0 \/ f[id] \notin DOMAIN f THEN FALSE
    ELSE ReachesRoot(f, f[id], n - 1)

\* the parent functions on rowIds 1..n whose graph is a forest
Forests(n) ==
    {f \in [1..n -> {NoLink} \cup 1..n] :
        \A id \in 1..n : ReachesRoot(f, id, n - 1)}

\* the caller's row order: ascending or descending rowId
Orders(n) == {[i \in 1..n |-> i], [i \in 1..n |-> n + 1 - i]}

\* the table of n rows with parent function f, coordinates xs, row order ord
Table(n, f, xs, ord) == [i \in 1..n |-> Row(ord[i], xs[ord[i]], f[ord[i]])]

\* two chains 1 <- 2 at x = 0, 1 and 3 <- 4 at x = 10, 11
TwoChains ==
    <<Row(1, 0, NoLink), Row(2, 1, 1), Row(3, 10, NoLink), Row(4, 11, 3)>>

\* three fragments {1 <- 2}, {3}, {4 <- 5}; rows 1 and 4 share x = 0 and
\* rows 2, 3 and 5 share x = 1
TouchingFragments ==
    <<Row(1, 0, NoLink), Row(2, 1, 1), Row(3, 1, NoLink), Row(4, 0, NoLink),
      Row(5, 1, 4)>>

\* two fragments of two rows each and one single row, all apart
ThreeFragments ==
    <<Row(5, 3, NoLink), Row(4, 0, 2), Row(3, 8, 5), Row(2, 1, NoLink),
      Row(1, 9, NoLink)>>

LargerTables == {TwoChains, TouchingFragments, ThreeFragments}

\* t is a well-formed table: every forest of up to MaxNodes rows at
\* coordinates 0..MaxCoord, or one of the larger tables
WellFormedTable(t) ==
    \/ \E n \in 1..MaxNodes :
        \E f \in Forests(n), xs \in [1..n -> 0..MaxCoord], ord \in Orders(n) :
            t = Table(n, f, xs, ord)
    \/ t \in LargerTables

NoBatches == [pc |-> "idle"]

\* the state on entry to heal_skeleton(t)
Enter(t, p, fst) ==
    /\ input = t
    /\ skeleton_df = << >>
    /\ g = EmptyGraph
    /\ ccs = << >>
    /\ k = 0
    /\ stitches = << >>
    /\ mst = EmptyGraph
    /\ result = << >>
    /\ pc = "call"
    /\ pass = p
    /\ first = fst

Init ==
    /\ WellFormedTable(input)
    /\ Enter(input, 1, << >>)
    /\ bt = NoBatches

\* ------------------------------------------------------------------------
\* heal_skeleton, step by step
\* ------------------------------------------------------------------------
\* the fragments collected before the loop returns or ends
CollectedBefore(df, cs) ==
    LET stop == {i \in DOMAIN cs : Cardinality(cs[i]) = Len(df)}
        n == IF stop = {} THEN Len(cs) ELSE MinOf(stop) - 1
    IN [i \in 1..n |-> FragmentRows(df, cs[i])]

CallerTableInPlace(caller, local) == local

\* the caller's table after heal_skeleton assigns to its own skeleton_df:
\* sort_values(...).reset_index(drop=True) returns a new DataFrame, so the
\* name skeleton_df no longer refers to the caller's table
CallerTable(caller, local) == caller

\* sort, build the graph, run the component loop; either return early or
\* order the fragments and zero the distance of the fragments' own edges
Call ==
    /\ pc = "call"
    /\ LET df == SortByRowId(input)
           G == skeleton_df_to_nx(df)
           cs == connected_components(G)
       IN /\ skeleton_df' = df
          /\ IF EarlyExit(cs, df)
             THEN /\ g' = G
                  /\ ccs' = CollectedBefore(df, cs)
                  /\ result' = df
                  /\ pc' = "done"
             ELSE /\ g' = SetEdgeAttributes(G, 0)
                  /\ ccs' = Fragments(df, cs)
                  /\ result' = result
                  /\ pc' = "stitch"
          /\ input' = CallerTable(input, df)
    /\ k' = 1
    /\ UNCHANGED <<stitches, mst, pass, first, bt>>

Pairs == Combinations2(Len(ccs))

\* one pass of: for cc_a, cc_b in combinations(ccs, 2)
StitchPair ==
    /\ pc = "stitch"
    /\ k <= Len(Pairs)
    /\ LET cc_a == ccs[Pairs[k][1]]
           cc_b == ccs[Pairs[k][2]]
           index_b == ArgMin(cc_a, cc_b)
           dist_ab == QueryDistance(cc_a, cc_b, index_b)
       IN \E index_a \in QueryIndexes(cc_a, cc_b, index_b) :
            LET node_a == cc_a[index_a].rowId
                node_b == cc_b[index_b].rowId
            IN /\ g' = AddEdgeDist(g, node_a, node_b, dist_ab)
               /\ stitches' = Append(stitches,
                    [node_a |-> node_a, node_b |-> node_b, distance |-> dist_ab])
    /\ k' = k + 1
    /\ UNCHANGED <<input, skeleton_df, ccs, mst, result, pc, pass, first, bt>>

\* the loop is over: compute the minimum spanning edges and build mst
SpanningTree ==
    /\ pc = "stitch"
    /\ k > Len(Pairs)
    /\ mst' = MstGraph(g)
    /\ pc' = "rewrite"
    /\ UNCHANGED <<input, skeleton_df, g, ccs, k, stitches, result, pass,
                   first, bt>>

\* traverse mst from the first row, rewrite link, assert, return
Rewrite ==
    /\ pc = "rewrite"
    /\ LET root == skeleton_df[1].rowId
           edges == dfs_edges(mst, root)
           df == LinkRewrite(skeleton_df, edges)
       IN /\ skeleton_df' = df
          /\ IF Asserts(df)
             THEN result' = df /\ pc' = "done"
             ELSE result' = result /\ pc' = "error"
          /\ input' = CallerTable(input, df)
    /\ UNCHANGED <<g, ccs, k, stitches, mst, pass, first, bt>>

\* the caller heals the returned table once more
HealAgain ==
    /\ pc = "done"
    /\ pass = 1
    /\ input' = result
    /\ skeleton_df' = << >>
    /\ g' = EmptyGraph
    /\ ccs' = << >>
    /\ k' = 0
    /\ stitches' = << >>
    /\ mst' = EmptyGraph
    /\ result' = << >>
    /\ pc' = "call"
    /\ pass' = 2
    /\ first' = result
    /\ bt' = bt

Next == Call \/ StitchPair \/ SpanningTree \/ Rewrite \/ HealAgain

Spec == Init /\ [][Next]_vars

\* ------------------------------------------------------------------------
\* Vocabulary of the properties, defined on tables alone
\* ------------------------------------------------------------------------
\* the undirected edges {rowId, link} of the rows with a link
LinkEdges(t) ==
    {{t[i].rowId, t[i].link} : i \in {j \in DOMAIN t : t[j].link # NoLink}}

RECURSIVE Closure(_, _)
Closure(E, S) ==
    LET T == S \cup UNION {e \in E : e \cap S # {}}
    IN IF T = S THEN S ELSE Closure(E, T)

\* the fragments of a table: the connected components of its link edges
FragmentsOf(t) == {Closure(LinkEdges(t), {id}) : id \in RowIds(t)}

NumFragments(t) == Cardinality(FragmentsOf(t))

RootRows(t) == {i \in DOMAIN t : t[i].link = NoLink}

RowOf(t, id) == t[CHOOSE i \in DOMAIN t : t[i].rowId = id]

\* the rows of t in ascending rowId (rowIds unique)
Ascending(t) ==
    [i \in DOMAIN t |->
        CHOOSE r \in Range(t) :
            Cardinality({q \in Range(t) : q.rowId < r.rowId}) = i - 1]

\* the walk from id along link meets a root row within n steps
RECURSIVE WalkEnds(_, _, _)
WalkEnds(t, id, n) ==
    IF id \notin RowIds(t) THEN FALSE
    ELSE IF RowOf(t, id).link = NoLink THEN TRUE
    ELSE IF n = 0 THEN FALSE
    ELSE WalkEnds(t, RowOf(t, id).link, n - 1)

Returned == pc = "done"

\* the stitching loop has run to its end
Stitched == (pc = "stitch" /\ k > Len(Pairs)) \/ pc = "rewrite"

\* ------------------------------------------------------------------------
\* C1: the returned table, read as undirected edges {rowId, link}, is one
\* connected component holding every rowId of the input; a well-formed
\* input never ends in an error.
\* ------------------------------------------------------------------------
OneComponent ==
    /\ pc # "error"
    /\ Returned =>
        /\ RowIds(result) = RowIds(input)
        /\ FragmentsOf(result) = {RowIds(input)}

HealedFromFragments == Returned /\ pass = 1 /\ NumFragments(input) >= 3

\* ------------------------------------------------------------------------
\* C2 as stated: the returned table has exactly one root row, and it is the
\* row of the smallest rowId of the input.
\* ------------------------------------------------------------------------
SmallestIsRoot ==
    Returned =>
        /\ Cardinality(RootRows(result)) = 1
        /\ \A i \in RootRows(result) :
                result[i].rowId = MinOf(RowIds(input))

\* C2 amended: the returned table has exactly one root row; with two or
\* more fragments it is the row of the smallest rowId, with one fragment it
\* is the input's own root row.
OneRoot ==
    Returned =>
        /\ Cardinality(RootRows(result)) = 1
        /\ \A i \in RootRows(result) :
                IF NumFragments(input) >= 2
                THEN result[i].rowId = MinOf(RowIds(input))
                ELSE \E j \in RootRows(input) :
                        input[j].rowId = result[i].rowId

TreeRootedElsewhere ==
    /\ Returned
    /\ pass = 1
    /\ NumFragments(input) = 1
    /\ \E j \in RootRows(input) : input[j].rowId # MinOf(RowIds(input))

\* ------------------------------------------------------------------------
\* C3 as stated: with F >= 2 fragments the spanning tree keeps every
\* {rowId, link} edge of the input and exactly F-1 of the stitch edges.
\* ------------------------------------------------------------------------
StitchSet == {{stitches[i].node_a, stitches[i].node_b} : i \in DOMAIN stitches}

KeepsFragmentEdges ==
    (pc \in {"rewrite", "done"} /\ NumFragments(input) >= 2) =>
        /\ LinkEdges(input) \subseteq EdgeSet(mst)
        /\ Cardinality(EdgeSet(mst) \cap StitchSet) = NumFragments(input) - 1

\* ------------------------------------------------------------------------
\* C5: in the returned table the walk along link from any row meets a root
\* row within N-1 steps.
\* ------------------------------------------------------------------------
WalkReachesRoot ==
    Returned =>
        \A id \in RowIds(result) : WalkEnds(result, id, Len(result) - 1)

HealedChain ==
    /\ Returned
    /\ pass = 1
    /\ NumFragments(input) >= 2
    /\ \E id \in RowIds(result) : ~WalkEnds(result, id, 1)

\* ------------------------------------------------------------------------
\* C6: a table that is one tree is returned with every link unchanged, rows
\* in ascending rowId; healing the returned table again returns it as is.
\* ------------------------------------------------------------------------
TreeUnchanged ==
    /\ (Returned /\ pass = 1 /\ NumFragments(input) = 1) =>
            result = Ascending(input)
    /\ pass = 2 => pc \in {"call", "done"}
    /\ (Returned /\ pass = 2) => result = first

TreeReordered ==
    /\ Returned
    /\ pass = 1
    /\ NumFragments(input) = 1
    /\ Len(input) >= 3
    /\ result # input

\* ------------------------------------------------------------------------
\* C7: the stitching loop adds F(F-1)/2 edges, one for each unordered pair
\* of fragments, joining a row of one to a row of the other at the least
\* distance between the two fragments.
\* ------------------------------------------------------------------------
LeastDistance(t, A, B) ==
    MinOf({Abs(RowOf(t, a).x - RowOf(t, b).x) : a \in A, b \in B})

Joins(s, A, B) ==
    \/ s.node_a \in A /\ s.node_b \in B
    \/ s.node_a \in B /\ s.node_b \in A

OneStitchPerPair ==
    (Stitched /\ NumFragments(input) >= 2) =>
        LET F == NumFragments(input)
        IN /\ 2 * Len(stitches) = F * (F - 1)
           /\ 2 * (Cardinality(EdgeSet(g)) - Cardinality(LinkEdges(input)))
                    = F * (F - 1)
           /\ \A A \in FragmentsOf(input) : \A B \in FragmentsOf(input) \ {A} :
                /\ Cardinality({i \in DOMAIN stitches :
                                    Joins(stitches[i], A, B)}) = 1
                /\ \A i \in DOMAIN stitches :
                    Joins(stitches[i], A, B) =>
                        /\ stitches[i].distance = LeastDistance(input, A, B)
                        /\ g.distance[{stitches[i].node_a, stitches[i].node_b}]
                                = LeastDistance(input, A, B)

UnequalFragmentsStitched ==
    /\ pc = "rewrite"
    /\ Len(stitches) = 3
    /\ Len(ccs[1]) > Len(ccs[3])

\* ------------------------------------------------------------------------
\* C10: with F >= 2 the row of the smallest rowId is the root, every other
\* row's link is its neighbour in the spanning tree on the side of the
\* root, and the output's edges are the spanning tree's N-1 edges.
\* ------------------------------------------------------------------------
TowardsRoot(E, root, id, parent) ==
    /\ {id, parent} \in E
    /\ root \in Closure({e \in E : id \notin e}, {parent})

TwoChainsHealed ==
    <<Row(1, 0, NoLink), Row(2, 1, 1), Row(3, 10, 2), Row(4, 11, 3)>>

LinksFollowTraversal ==
    (Returned /\ pass = 1 /\ NumFragments(input) >= 2) =>
        LET root == MinOf(RowIds(input))
        IN /\ RowOf(result, root).link = NoLink
           /\ \A i \in DOMAIN result :
                result[i].rowId # root =>
                    TowardsRoot(EdgeSet(mst), root, result[i].rowId,
                                result[i].link)
           /\ LinkEdges(result) = EdgeSet(mst)
           /\ Cardinality(LinkEdges(result)) = Len(input) - 1
           /\ input = TwoChains => result = TwoChainsHealed

TwoChainsReturned == Returned /\ pass = 1 /\ input = TwoChains

\* ------------------------------------------------------------------------
\* Tables that are not well-formed: a well-formed table with one link set
\* to an id no row has, or with one rowId set to another row's rowId
\* ------------------------------------------------------------------------
Dangling(t, i) == [t EXCEPT ![i].link = MaxOf(RowIds(t)) + 1]

Duplicated(t, i, j) == [t EXCEPT ![i].rowId = t[j].rowId]

Corruptions(t) ==
    {c \in {Dangling(t, i) : i \in DOMAIN t}
            \cup {Duplicated(t, i, j) : i \in DOMAIN t, j \in DOMAIN t} :
        c # t}

MalformedTable(t) ==
    \/ \E n \in 1..MaxNodes :
        \E f \in Forests(n), xs \in [1..n -> 0..MaxCoord], ord \in Orders(n) :
            t \in Corruptions(Table(n, f, xs, ord))
    \/ \E w \in LargerTables : t \in Corruptions(w)

InitAny ==
    /\ MalformedTable(input)
    /\ Enter(input, 1, << >>)
    /\ bt = NoBatches

SpecAny == InitAny /\ [][Next]_vars

\* a row's link names no row, or two rows share a rowId
Malformed(t) ==
    \/ \E i \in DOMAIN t : t[i].link \notin RowIds(t) \cup {NoLink}
    \/ \E i \in DOMAIN t : \E j \in DOMAIN t : i # j /\ t[i].rowId = t[j].rowId

\* ------------------------------------------------------------------------
\* C4 as stated: a table with a link that names no row, or with two rows of
\* one rowId, is never returned; the nodes of the graph that is split into
\* fragments are exactly the table's rowIds.
\* ------------------------------------------------------------------------
RejectsMalformed ==
    /\ (pass = 1 /\ Malformed(input)) => ~Returned
    /\ (pass = 1 /\ Returned) => Range(g.nodes) = RowIds(skeleton_df)

\* ------------------------------------------------------------------------
\* The link rewrite on any graph in place of the spanning tree
\* ------------------------------------------------------------------------
\* the graph on nodes 1..n with the edges S, added in combinations order
GraphOf(n, S) ==
    AddEdgesFrom(AddNodesFrom(EmptyGraph, [i \in 1..n |-> i]),
                 SelectSeq(Combinations2(n), LAMBDA p : p \in S))

InitRewrite ==
    /\ \E n \in 1..MaxNodes :
        \E f \in Forests(n), S \in SUBSET Range(Combinations2(n)) :
            /\ input = Table(n, f, [i \in 1..n |-> 0], [i \in 1..n |-> i])
            /\ mst = GraphOf(n, S)
    /\ skeleton_df = input
    /\ g = EmptyGraph
    /\ ccs = << >>
    /\ k = 1
    /\ stitches = << >>
    /\ result = << >>
    /\ pc = "rewrite"
    /\ pass = 1
    /\ first = << >>
    /\ bt = NoBatches

SpecRewrite == InitRewrite /\ [][Rewrite]_vars

\* the nodes joined to the first row's node in mst
Traversed == Closure(EdgeSet(mst), {skeleton_df[1].rowId})

\* ------------------------------------------------------------------------
\* C8: when the traversal reaches fewer nodes than the table has rows, or
\* the rewritten links have no or several root rows, heal_skeleton raises
\* and returns nothing; a row the traversal did not reach is a root row.
\* ------------------------------------------------------------------------
RaisesOnBrokenTree ==
    pc \in {"done", "error"} =>
        /\ (\/ Cardinality(Traversed) < Len(skeleton_df)
            \/ Cardinality(RootRows(skeleton_df)) # 1)
                => (pc = "error" /\ result = << >>)
        /\ \A i \in DOMAIN skeleton_df :
                skeleton_df[i].rowId \notin Traversed =>
                    skeleton_df[i].link = NoLink

RaisedOnUnreached ==
    /\ pc = "error"
    /\ Cardinality(Traversed) < Len(skeleton_df)
    /\ Cardinality(RootRows(skeleton_df)) = 2

\* ------------------------------------------------------------------------
\* iter_batches
\* ------------------------------------------------------------------------
\* it[a:b] and it.iloc[a:b]: the end of the slice is clipped to len(it)
Slice(it, a, b) == SubSeq(it, a + 1, IF b < Len(it) THEN b ELSE Len(it))

FloorLen(n, batch_size) == n \div batch_size

\* _iter_batches_with_len.__len__: int(np.ceil(len(it) / batch_size))
BatchesLen(n, batch_size) ==
    IF n % batch_size = 0 THEN n \div batch_size ELSE n \div batch_size + 1

\* "frame": DataFrame or Series; "list": list or ndarray; "iterable": any
\* other iterable, with __len__ (a tuple) or without (a generator)
InitBatches ==
    /\ \E n \in 0..MaxItems :
        \E it \in [1..n -> 0..1], batch_size \in 1..MaxBatch,
           kind \in {"frame", "list", "iterable"}, has_len \in BOOLEAN :
            /\ kind # "iterable" => has_len
            /\ bt = [it |-> it, kind |-> kind, has_len |-> has_len,
                     batch_size |-> batch_size, pos |-> 0, out |-> << >>,
                     pc |-> "run"]
    /\ input = << >>
    /\ skeleton_df = << >>
    /\ g = EmptyGraph
    /\ ccs = << >>
    /\ k = 0
    /\ stitches = << >>
    /\ mst = EmptyGraph
    /\ result = << >>
    /\ pc = "idle"
    /\ pass = 1
    /\ first = << >>

\* DataFrame or Series:
\* for batch_start in range(0, len(it), batch_size):
\*     yield it.iloc[batch_start:batch_start+batch_size]
FrameBatch ==
    /\ bt.pc = "run"
    /\ bt.kind = "frame"
    /\ IF bt.pos < Len(bt.it)
       THEN bt' = [bt EXCEPT
                !.out = Append(@, Slice(bt.it, bt.pos, bt.pos + bt.batch_size)),
                !.pos = @ + bt.batch_size]
       ELSE bt' = [bt EXCEPT !.pc = "stop"]
    /\ UNCHANGED healVars

\* list or ndarray:
\* for batch_start in range(0, len(it), batch_size):
\*     yield it[batch_start:batch_start+batch_size]
ListBatch ==
    /\ bt.pc = "run"
    /\ bt.kind = "list"
    /\ IF bt.pos < Len(bt.it)
       THEN bt' = [bt EXCEPT
                !.out = Append(@, Slice(bt.it, bt.pos, bt.pos + bt.batch_size)),
                !.pos = @ + bt.batch_size]
       ELSE bt' = [bt EXCEPT !.pc = "stop"]
    /\ UNCHANGED healVars

\* one pass of the while loop: next(it) up to batch_size times; the finally
\* clause yields the batch unless it is empty; StopIteration ends the loop
IteratorBatch ==
    /\ bt.pc = "run"
    /\ bt.kind = "iterable"
    /\ LET left == Len(bt.it) - bt.pos
           taken == IF left < bt.batch_size THEN left ELSE bt.batch_size
           batch == SubSeq(bt.it, bt.pos + 1, bt.pos + taken)
       IN bt' = [bt EXCEPT
                !.out = IF batch # << >> THEN Append(@, batch) ELSE @,
                !.pos = @ + taken,
                !.pc = IF taken < bt.batch_size THEN "stop" ELSE "run"]
    /\ UNCHANGED healVars

NextBatches == FrameBatch \/ ListBatch \/ IteratorBatch

SpecBatches == InitBatches /\ [][NextBatches]_vars

RECURSIVE Flatten(_)
Flatten(bs) == IF bs = << >> THEN << >> ELSE Head(bs) \o Flatten(Tail(bs))

\* ------------------------------------------------------------------------
\* C9: the batches yielded, joined in order, are the input; every batch but
\* the last has batch_size items, the last has 1..batch_size; len() of the
\* batch iterator is the number of batches, ceil(n / batch_size).
\* ------------------------------------------------------------------------
BatchesCoverInput ==
    bt.pc # "idle" =>
        LET n == Len(bt.it)
            b == bt.batch_size
            m == Len(bt.out)
        IN /\ Flatten(bt.out) = SubSeq(bt.it, 1, Len(Flatten(bt.out)))
           /\ \A i \in 1..m : Len(bt.out[i]) \in 1..b
           /\ \A i \in 1..(m - 1) : Len(bt.out[i]) = b
           /\ bt.pc = "stop" =>
                /\ Flatten(bt.out) = bt.it
                /\ m * b >= n
                /\ m > 0 => (m - 1) * b < n
                /\ bt.has_len => BatchesLen(n, b) = m

ShortLastBatch ==
    /\ bt.pc = "stop"
    /\ bt.kind = "iterable"
    /\ bt.has_len
    /\ Len(bt.out) >= 2
    /\ Len(bt.out[Len(bt.out)]) < bt.batch_size

\* ------------------------------------------------------------------------
\* C11 as stated: heal_skeleton returns from the component loop, with the
\* links as given and neither a stitch nor a spanning tree, exactly when
\* the graph built from the input has one connected component; with two or
\* more components it does not return from the loop.
\* ------------------------------------------------------------------------
SameRows(s, t) ==
    /\ Len(s) = Len(t)
    /\ \A r \in Range(s) \cup Range(t) :
        Cardinality({i \in DOMAIN s : s[i] = r})
            = Cardinality({i \in DOMAIN t : t[i] = r})

EarlyExitIffOneComponent ==
    [][pc = "call" =>
        /\ pc' = "done" <=> NumFragments(input) = 1
        /\ pc' = "done" =>
            /\ SameRows(result', input)
            /\ stitches' = << >>
            /\ mst' = EmptyGraph]_vars

\* ------------------------------------------------------------------------
\* C12: the returned table has the input's rowIds, each with its input x,
\* y, z and radius, and no step of heal_skeleton changes the caller's
\* table, on the early exit and on the healing path.
\* ------------------------------------------------------------------------
SameButLink(a, b) ==
    /\ a.rowId = b.rowId
    /\ a.x = b.x
    /\ a.y = b.y
    /\ a.z = b.z
    /\ a.radius = b.radius

OnlyLinksChange ==
    /\ [](Returned =>
            /\ Len(result) = Len(input)
            /\ RowIds(result) = RowIds(input)
            /\ \A i \in DOMAIN result : \E j \in DOMAIN input :
                    SameButLink(result[i], input[j]))
    /\ [][(pc \in {"call", "stitch", "rewrite"}) => input' = input]_vars

HealedUnsortedTable ==
    /\ Returned
    /\ pass = 1
    /\ NumFragments(input) >= 2
    /\ input # Ascending(input)
    /\ \E i \in DOMAIN result : result[i] \notin Range(input)

=============================================================================
